---- MODULE Spec2Model ----
(***************************************************************************)
(* A model of the Mynewt shell, sys/shell/src/shell.c: the tokenizer       *)
(* line2argv, the module registry, the default-module state and its        *)
(* cached prompt, the command resolver get_cb, shell_process_command and   *)
(* the event callback shell() that recycles the line buffers through       *)
(* avail_queue.                                                            *)
(*                                                                         *)
(* C strings are sequences of one-character strings without the            *)
(* terminating NUL; a char array (default_module_prompt, a console_input   *)
(* line) is a sequence of cells that may hold NUL.  C indices are 0-based, *)
(* sequences 1-based: argv[i] of the source is Arg(argv, i) here.          *)
(***************************************************************************)
EXTENDS Integers, Sequences, FiniteSets, TLC

(* syscfg values, MYNEWT_VAL(...): set by the build, small here *)
SHELL_MAX_MODULES == 3
SHELL_MAX_CMD_QUEUED == 2
SHELL_CMD_ARGC_MAX == 3

(* shell.c:32-36 *)
MODULE_NAME_MAX_LEN == 20
PROMPT_SUFFIX == 3
PROMPT_MAX_LEN == MODULE_NAME_MAX_LEN + PROMPT_SUFFIX

(* ---------------------------------------------------------------------- *)
(* C values                                                                *)
(* ---------------------------------------------------------------------- *)
NUL == "NUL"
SP == " "
(* a null char pointer and the indeterminate value of an unassigned       *)
(* automatic char pointer; neither is a string of one-character cells    *)
NULLP == <<"NULL">>
UNINIT == <<"UNINIT">>
(* what a read past the end of default_module_prompt yields *)
BEYOND == "BEYOND"
(* no function / no event *)
NOFUNC == "NULL"
NOEV == -1

Min(a, b) == IF a < b THEN a ELSE b

Rep(c, n) == [i \in 1..n |-> c]

(* F(v), v being evaluated once before F is applied to its value *)
Bind(v, F(_)) == CHOOSE r \in {F(x) : x \in {v}} : TRUE

(* the string literals of the source *)
SHELL_PROMPT == <<"s", "h", "e", "l", "l", ">", " ">>
STR_help == <<"h", "e", "l", "p">>
STR_select == <<"s", "e", "l", "e", "c", "t">>
STR_suffix == <<">", " ">>

(* strlen of a char array: the number of cells before the first NUL *)
RECURSIVE strlen_from(_, _)
strlen_from(a, i) ==
    IF i > Len(a) \/ a[i] = NUL THEN i - 1 ELSE strlen_from(a, i + 1)

(* strncmp(a, b, n) == 0 for two strings without embedded NUL: the        *)
(* comparison stops at n characters or at the end of both                 *)
strncmp_eq(a, b, n) ==
    SubSeq(a, 1, Min(n, Len(a))) = SubSeq(b, 1, Min(n, Len(b)))

strcmp_eq(a, b) == a = b

(* console output: one record per console_printf call (or per callback    *)
(* invocation and per return of an application callback, which may print  *)
(* what it likes in between)                                              *)
Out(k, t, n, v) == [k |-> k, t |-> t, n |-> n, v |-> v]
Msg(k) == Out(k, <<>>, 0, <<>>)
MsgS(k, t) == Out(k, t, 0, <<>>)

(* ---------------------------------------------------------------------- *)
(* line2argv, shell.c:72-114                                               *)
(* ---------------------------------------------------------------------- *)
(* one space skipped where the source skips a run of them *)
skip_spaces_once(str, p) ==
    IF p <= Len(str) /\ str[p] = SP THEN p + 1 ELSE p

RECURSIVE skip_spaces(_, _)
skip_spaces(str, p) ==
    IF p <= Len(str) /\ str[p] = SP THEN skip_spaces(str, p + 1) ELSE p

(* strchr(str + p, ' '): the index of the first space at or after p, 0 if *)
(* the string ends first                                                  *)
RECURSIVE strchr_sp(_, _)
strchr_sp(str, p) ==
    IF p > Len(str) \/ str[p] = NUL THEN 0
    ELSE IF str[p] = SP THEN p
    ELSE strchr_sp(str, p + 1)

(* the string a char pointer into the line designates once the scan has   *)
(* ended: the cells from p up to the next NUL or the end of the line      *)
RECURSIVE c_str(_, _)
c_str(a, p) ==
    IF p > Len(a) \/ a[p] = NUL THEN <<>> ELSE <<a[p]>> \o c_str(a, p + 1)

(* the while loop of lines 91-108; argv holds pointers (indices into the  *)
(* line), 0 for NULL, -1 for a cell never assigned                        *)
RECURSIVE line2argv_loop(_, _, _, _, _)
(* the tokens past the capacity dropped, the line run with the others *)
line2argv_next_truncating(str, q, argc, argv, size) ==
    Bind(skip_spaces(str, q + 1), LAMBDA p :
        IF p > Len(str) \/ argc + 1 = size
        THEN [argc |-> argc, argv |-> [argv EXCEPT ![argc + 1] = 0],
              line |-> str, out |-> <<>>]
        ELSE line2argv_loop(str, p, argc + 1, [argv EXCEPT ![argc + 1] = p], size))

(* lines 92-107, q being where strchr found the space *)
line2argv_next(str, q, argc, argv, size) ==
    Bind(skip_spaces(str, q + 1), LAMBDA p :
        IF p > Len(str)
        THEN [argc |-> argc, argv |-> [argv EXCEPT ![argc + 1] = 0],
              line |-> str, out |-> <<>>]
        ELSE IF argc + 1 = size
        THEN [argc |-> 0, argv |-> [argv EXCEPT ![argc + 1] = p], line |-> str,
              out |-> <<Out("TooManyParameters", <<>>, size - 1, <<>>)>>]
        ELSE line2argv_loop(str, p, argc + 1, [argv EXCEPT ![argc + 1] = p], size))

line2argv_loop(str, p, argc, argv, size) ==
    Bind(strchr_sp(str, p), LAMBDA q :
        IF q = 0
        THEN [argc |-> argc, argv |-> [argv EXCEPT ![argc + 1] = 0],
              line |-> str, out |-> <<>>]
        ELSE Bind([str EXCEPT ![q] = NUL], LAMBDA str2 :
                 line2argv_next(str2, q, argc, argv, size)))

line2argv_ptrs(str, size) ==
    Bind(skip_spaces(str, 1), LAMBDA p :
        IF Len(str) = 0 \/ p > Len(str)
        THEN [argc |-> 0, argv |-> [i \in 1..size |-> -1], line |-> str, out |-> <<>>]
        ELSE line2argv_loop(str, p, 1, [i \in 1..size |-> IF i = 1 THEN p ELSE -1],
                            size))

(* line2argv with the pointers of argv replaced by the strings they       *)
(* designate in the line as the scan left it                              *)
line2argv_strings(r, size) ==
    [argc |-> r.argc,
     argv |-> [i \in 1..size |->
                 IF r.argv[i] = -1 THEN UNINIT
                 ELSE IF r.argv[i] = 0 THEN NULLP
                 ELSE c_str(r.line, r.argv[i])],
     line |-> r.line,
     out |-> r.out]

line2argv(str, size) ==
    Bind(line2argv_ptrs(str, size), LAMBDA r : line2argv_strings(r, size))

(* argv[i] of the source *)
Arg(argv, i) == IF i + 1 <= Len(argv) THEN argv[i + 1] ELSE UNINIT

(* ---------------------------------------------------------------------- *)
(* The state: the statics of shell.c:38-51, the default event queue the   *)
(* console puts completed lines on, and what the console has been sent    *)
(* ---------------------------------------------------------------------- *)
VARIABLES
    shell_modules,          \* shell.c:38, [0..SHELL_MAX_MODULES-1 -> shell_module]
    num_of_shell_entities,  \* shell.c:39
    prompt,                 \* shell.c:41
    default_module_prompt,  \* shell.c:42, PROMPT_MAX_LEN cells
    default_module,         \* shell.c:43
    app_cmd_handler,        \* shell.c:45
    app_prompt_handler,     \* shell.c:46
    buf,                    \* shell.c:48, the line of each console_input
    avail_queue,            \* shell.c:50, the events free for the console
    lines_queue,            \* os_eventq_dflt_get(): events carrying a line
    cur_ev,                 \* the event whose ev_cb is running, or NOEV
    overrun,                \* a write or read past default_module_prompt happened
    console,                \* the output of the last operation
    ret,                    \* the last API call: [op, val, arg]
    nproc                   \* per event: shell_process_command calls since its fill

vars == <<shell_modules, num_of_shell_entities, prompt, default_module_prompt,
          default_module, app_cmd_handler, app_prompt_handler, buf, avail_queue,
          lines_queue, cur_ev, overrun, console, ret, nproc>>

Events == 0..(SHELL_MAX_CMD_QUEUED - 1)

(* ---------------------------------------------------------------------- *)
(* Modules and command tables (struct shell_module, struct shell_cmd)     *)
(* ---------------------------------------------------------------------- *)
NoHelp == [present |-> FALSE, summary |-> NULLP, usage |-> NULLP]
Help(summary, usage) == [present |-> TRUE, summary |-> summary, usage |-> usage]
Cmd(name, func, help) == [sc_cmd |-> name, sc_cmd_func |-> func, help |-> help]
Module(name, commands) == [module_name |-> name, commands |-> commands]
NoModule == Module(NULLP, <<>>)

(* get_destination_module, shell.c:116-129; -1 when no module matches *)
RECURSIVE get_destination_module_from(_, _, _)
(* the names compared whole, as strcmp does *)
get_destination_module_from_exact(i, module_str, len) ==
    IF i >= num_of_shell_entities THEN -1
    ELSE IF strcmp_eq(module_str, shell_modules[i].module_name) THEN i
    ELSE get_destination_module_from(i + 1, module_str, len)

get_destination_module_from(i, module_str, len) ==
    IF i >= num_of_shell_entities THEN -1
    ELSE IF strncmp_eq(module_str, shell_modules[i].module_name, len) THEN i
    ELSE get_destination_module_from(i + 1, module_str, len)

get_destination_module(module_str, len) ==
    get_destination_module_from(0, module_str, len)

(* the index of the first command of the table named `command`, 0 if none *)
RECURSIVE find_cmd(_, _, _)
find_cmd(commands, command, i) ==
    IF i > Len(commands) THEN 0
    ELSE IF strcmp_eq(command, commands[i].sc_cmd) THEN i
    ELSE find_cmd(commands, command, i + 1)

(* get_command_and_module, shell.c:134-161; dm is default_module.  The    *)
(* result is the command, *module and what was printed                    *)
get_command_and_module_in(argv, module) ==
    IF module = -1
    THEN [command |-> NULLP, module |-> -1,
          out |-> <<MsgS("IllegalModule", Arg(argv, 0))>>]
    ELSE [command |-> Arg(argv, 1), module |-> module, out |-> <<>>]

get_command_and_module(argv, dm) ==
    IF Arg(argv, 0) = NULLP
    THEN [command |-> NULLP, module |-> -1, out |-> <<Msg("UnrecognizedCommand")>>]
    ELSE IF dm = -1
    THEN IF Arg(argv, 1) = NULLP \/ Arg(argv, 1) = <<>>
         THEN [command |-> NULLP, module |-> -1,
               out |-> <<MsgS("UnrecognizedCommandS", Arg(argv, 0))>>]
         ELSE get_command_and_module_in(argv,
                  get_destination_module(Arg(argv, 0), MODULE_NAME_MAX_LEN))
    ELSE [command |-> Arg(argv, 0), module |-> dm, out |-> <<>>]

(* the entry printed with the summary preferred to the usage *)
show_cmd_help_entry_summary_first(cmd) ==
    <<MsgS("CmdName", cmd.sc_cmd)>> \o
    (IF ~cmd.help.present THEN <<Msg("Blank")>>
     ELSE IF cmd.help.summary # NULLP THEN <<MsgS("HelpText", cmd.help.summary)>>
     ELSE IF cmd.help.usage # NULLP THEN <<MsgS("HelpText", cmd.help.usage)>>
     ELSE <<Msg("Blank")>>)

(* show_cmd_help, shell.c:163-199: what it prints (it returns 0).         *)
(* show_cmd_help_entry is the body of the for loop at the matching entry  *)
show_cmd_help_entry(cmd) ==
    <<MsgS("CmdName", cmd.sc_cmd)>> \o
    (IF ~cmd.help.present THEN <<Msg("Blank")>>
     ELSE IF cmd.help.usage # NULLP THEN <<MsgS("HelpText", cmd.help.usage)>>
     ELSE IF cmd.help.summary # NULLP THEN <<MsgS("HelpText", cmd.help.summary)>>
     ELSE <<Msg("Blank")>>)

show_cmd_help_at(argv, commands, i) ==
    IF i = 0 THEN <<MsgS("UnrecognizedCommandS", Arg(argv, 0))>>
    ELSE show_cmd_help_entry(commands[i])

show_cmd_help_of(argv, cm) ==
    IF cm.module = -1 \/ cm.command = NULLP THEN cm.out
    ELSE cm.out \o show_cmd_help_at(argv, shell_modules[cm.module].commands,
                       find_cmd(shell_modules[cm.module].commands, cm.command, 1))

show_cmd_help(argv, dm) ==
    Bind(get_command_and_module(argv, dm), LAMBDA cm : show_cmd_help_of(argv, cm))

(* print_modules, shell.c:201-209 *)
print_modules ==
    [i \in 1..num_of_shell_entities |->
        MsgS("ModuleName", shell_modules[i - 1].module_name)]

(* print_module_commands, shell.c:211-227: per command the name, the      *)
(* summary if there is one, and the newline                               *)
print_module_commands(module) ==
    <<Msg("HelpEntry")>> \o
    [i \in 1..Len(shell_modules[module].commands) |->
        Out("CmdEntry", shell_modules[module].commands[i].sc_cmd, 0,
            IF shell_modules[module].commands[i].help.present
               /\ shell_modules[module].commands[i].help.summary # NULLP
            THEN <<shell_modules[module].commands[i].help.summary>> ELSE <<>>)]

(* show_help, shell.c:229-259: what it prints (it returns 0) *)
show_help_module(name, module) ==
    IF module = -1 THEN <<MsgS("IllegalModule", name)>>
    ELSE print_module_commands(module)

show_help(argc, argv, dm) ==
    IF argc > 2 \/ (dm # -1 /\ argc = 2)
    THEN show_cmd_help(SubSeq(argv, 2, Len(argv)), dm)
    ELSE IF argc = 2 \/ (dm # -1 /\ argc = 1)
    THEN IF dm = -1
         THEN show_help_module(Arg(argv, 1),
                  get_destination_module(Arg(argv, 1), MODULE_NAME_MAX_LEN))
         ELSE print_module_commands(dm)
    ELSE <<Msg("AvailableModules")>> \o print_modules \o <<Msg("ToSelect")>>

(* ---------------------------------------------------------------------- *)
(* Default-module state.  g is the record of the statics a command may    *)
(* change while it runs: default_module, default_module_prompt, overrun   *)
(* ---------------------------------------------------------------------- *)
G == [default_module |-> default_module,
      default_module_prompt |-> default_module_prompt,
      overrun |-> overrun]

(* strncpy(dst, src, n): n cells written, NUL padded, no NUL added when   *)
(* src has n characters or more                                           *)
strncpy(dst, src, n) ==
    [i \in 1..Len(dst) |->
        IF i <= n THEN (IF i <= Len(src) THEN src[i] ELSE NUL) ELSE dst[i]]

(* strcat(dst, src): src and a NUL written from the first NUL of dst on,  *)
(* k being strlen(dst).  The cells past the array are not dst's: a write  *)
(* there, or a scan that finds no NUL inside the array, is recorded in    *)
(* over                                                                   *)
strcat_at(dst, src, k) ==
    IF k >= Len(dst) THEN [a |-> dst, over |-> TRUE]
    ELSE [a |-> [i \in 1..Len(dst) |->
                    IF i > k /\ i <= k + Len(src) THEN src[i - k]
                    ELSE IF i = k + Len(src) + 1 THEN NUL
                    ELSE dst[i]],
          over |-> k + Len(src) + 1 > Len(dst)]

strcat(dst, src) == strcat_at(dst, src, strlen_from(dst, 1))

(* the string printf("%s") reads from a char array; BEYOND stands for     *)
(* whatever follows the array when it holds no NUL                        *)
array_str(a) ==
    IF strlen_from(a, 1) < Len(a) THEN SubSeq(a, 1, strlen_from(a, 1))
    ELSE a \o <<BEYOND>>

(* set_default_module clearing the selection when the lookup fails *)
set_default_module_to_clearing(name, module, cat, g) ==
    IF module = -1
    THEN [ret |-> -1, g |-> [g EXCEPT !.default_module = -1],
          out |-> <<MsgS("IllegalModuleDefault", name)>>]
    ELSE [ret |-> 0,
          g |-> [default_module |-> module,
                 default_module_prompt |-> cat.a,
                 overrun |-> g.overrun \/ cat.over],
          out |-> <<>>]

(* set_default_module, shell.c:261-285.  set_default_module_to is lines   *)
(* 274-284, module being what get_destination_module returned and cat     *)
(* the array after strncpy and strcat                                     *)
set_default_module_to(name, module, cat, g) ==
    IF module = -1
    THEN [ret |-> -1, g |-> g, out |-> <<MsgS("IllegalModuleDefault", name)>>]
    ELSE [ret |-> 0,
          g |-> [default_module |-> module,
                 default_module_prompt |-> cat.a,
                 overrun |-> g.overrun \/ cat.over],
          out |-> <<>>]

set_default_module(name, g) ==
    IF Len(name) > MODULE_NAME_MAX_LEN
    THEN [ret |-> -1, g |-> g, out |-> <<MsgS("ModuleNameTooLong", name)>>]
    ELSE set_default_module_to(name,
             get_destination_module(name, MODULE_NAME_MAX_LEN),
             strcat(strncpy(g.default_module_prompt, name, MODULE_NAME_MAX_LEN),
                    STR_suffix),
             g)

(* select_module, shell.c:287-297 (it returns 0, whatever                 *)
(* set_default_module returned)                                           *)
select_module_set(r) == [g |-> r.g, out |-> r.out]

(* select without argument emptying the cached prompt as well *)
select_module_clearing_prompt(argc, argv, g) ==
    IF argc = 1
    THEN [g |-> [g EXCEPT !.default_module = -1,
                          !.default_module_prompt = Rep(NUL, PROMPT_MAX_LEN)],
          out |-> <<>>]
    ELSE Bind(set_default_module(Arg(argv, 1), g), LAMBDA r : select_module_set(r))

select_module(argc, argv, g) ==
    IF argc = 1
    THEN [g |-> [g EXCEPT !.default_module = -1], out |-> <<>>]
    ELSE Bind(set_default_module(Arg(argv, 1), g), LAMBDA r : select_module_set(r))

(* the application's prompt callbacks and what each returns *)
PromptHandlers == {"prompt_null", "prompt_empty", "prompt_app"}
prompt_handler_result(h) ==
    IF h = "prompt_null" THEN NULLP
    ELSE IF h = "prompt_empty" THEN <<>>
    ELSE <<"a", "p", "p", ">", " ">>

(* get_prompt testing the selected module before the prompt callback *)
get_prompt_module_first(g) ==
    IF g.default_module # -1 THEN array_str(g.default_module_prompt)
    ELSE IF app_prompt_handler # NOFUNC
            /\ prompt_handler_result(app_prompt_handler) # NULLP
    THEN prompt_handler_result(app_prompt_handler)
    ELSE prompt

(* get_prompt, shell.c:53-70 *)
get_prompt(g) ==
    IF app_prompt_handler # NOFUNC /\ prompt_handler_result(app_prompt_handler) # NULLP
    THEN prompt_handler_result(app_prompt_handler)
    ELSE IF g.default_module # -1 THEN array_str(g.default_module_prompt)
    ELSE prompt

(* console_printf("%s", get_prompt()) *)
print_prompt(g) == <<MsgS("prompt", get_prompt(g))>>

(* get_cb, shell.c:299-340: the callback and what was printed.            *)
(* get_cb_in is lines 327-339, cm being what get_command_and_module       *)
(* returned, and get_cb_at the for loop, i being the matching entry       *)
get_cb_at(cm, commands, i) ==
    [func |-> IF i = 0 THEN NOFUNC ELSE commands[i].sc_cmd_func,
     out |-> cm.out \o <<Out("ModuleCommand", cm.command, cm.module, <<>>)>>]

get_cb_in(cm) ==
    IF cm.module = -1 \/ cm.command = NULLP
    THEN [func |-> NOFUNC, out |-> cm.out]
    ELSE get_cb_at(cm, shell_modules[cm.module].commands,
                   find_cmd(shell_modules[cm.module].commands, cm.command, 1))

get_cb(argc, argv, dm) ==
    IF Arg(argv, 0) = NULLP \/ Arg(argv, 0) = <<>>
    THEN [func |-> NOFUNC, out |-> <<Msg("IllegalParameter")>>]
    ELSE IF strcmp_eq(Arg(argv, 0), STR_help)
    THEN [func |-> "show_help", out |-> <<>>]
    ELSE IF strcmp_eq(Arg(argv, 0), STR_select)
    THEN [func |-> "select_module", out |-> <<>>]
    ELSE IF argc = 1 /\ dm = -1
    THEN [func |-> NOFUNC, out |-> <<Msg("MissingParameter")>>]
    ELSE Bind(get_command_and_module(argv, dm), LAMBDA cm : get_cb_in(cm))

(* the invocation sc_cmd_func(argc, argv), shell.c:376: the built-ins run *)
(* their code; any other callback is the application's, it returns res    *)
(* and leaves the statics of the shell alone                              *)
invoke_select(r) == [res |-> 0, g |-> r.g, out |-> r.out]

invoke(func, argc, argv, res, g) ==
    IF func = "show_help"
    THEN [res |-> 0, g |-> g, out |-> show_help(argc, argv, g.default_module)]
    ELSE IF func = "select_module"
    THEN Bind(select_module(argc, argv, g), LAMBDA r : invoke_select(r))
    ELSE [res |-> res, g |-> g,
          out |-> <<Out("call", <<func>>, argc, SubSeq(argv, 1, argc)),
                    Out("return", <<func>>, res, <<>>)>>]

(* shell_process_command, shell.c:342-381; res is what an application     *)
(* callback returns if one is invoked.  The result is the statics after   *)
(* the command, the line as line2argv left it, and what was printed       *)
(* the argument offset never set *)
argc_offset_zero(sc_cmd_func, dm) == 0

(* the argument offset set for every callback *)
argc_offset_always(sc_cmd_func, dm) == 1

(* lines 367-373 *)
argc_offset(sc_cmd_func, dm) ==
    IF dm = -1 /\ sc_cmd_func # "select_module" /\ sc_cmd_func # "show_help"
    THEN 1 ELSE 0

(* lines 376-380, c being the outcome of the invocation *)
shell_process_command_called(t, cb, c) ==
    [g |-> c.g, line |-> t.line,
     out |-> t.out \o cb.out \o c.out
             \o (IF c.res < 0 THEN show_cmd_help(t.argv, c.g.default_module) ELSE <<>>)
             \o print_prompt(c.g)]

(* lines 357-380 *)
shell_process_command_func(t, cb, sc_cmd_func, res, g) ==
    IF sc_cmd_func = NOFUNC
    THEN [g |-> g, line |-> t.line,
          out |-> t.out \o cb.out
                  \o <<MsgS("UnrecognizedCommandS", Arg(t.argv, 0)), Msg("TypeHelp")>>
                  \o print_prompt(g)]
    ELSE Bind(invoke(sc_cmd_func,
                     t.argc - argc_offset(sc_cmd_func, g.default_module),
                     SubSeq(t.argv, argc_offset(sc_cmd_func, g.default_module) + 1,
                            Len(t.argv)),
                     res, g),
              LAMBDA c : shell_process_command_called(t, cb, c))

(* lines 356-366 *)
shell_process_command_cb(t, cb, res, g) ==
    shell_process_command_func(t, cb,
        IF cb.func # NOFUNC THEN cb.func ELSE app_cmd_handler, res, g)

(* shell_process_command returning at line 353 without the prompt *)
shell_process_command_argv_silent(t, res, g) ==
    IF t.argc = 0
    THEN [g |-> g, line |-> t.line, out |-> t.out]
    ELSE Bind(get_cb(t.argc, t.argv, g.default_module),
              LAMBDA cb : shell_process_command_cb(t, cb, res, g))

(* lines 350-356 *)
shell_process_command_argv(t, res, g) ==
    IF t.argc = 0
    THEN [g |-> g, line |-> t.line, out |-> t.out \o print_prompt(g)]
    ELSE Bind(get_cb(t.argc, t.argv, g.default_module),
              LAMBDA cb : shell_process_command_cb(t, cb, res, g))

shell_process_command(line, res, g) ==
    Bind(line2argv(line, SHELL_CMD_ARGC_MAX + 1),
         LAMBDA t : shell_process_command_argv(t, res, g))

(* ---------------------------------------------------------------------- *)
(* Initialisation and registration                                         *)
(* ---------------------------------------------------------------------- *)
(* line_queue_init, shell.c:426-436: every event is put on avail_queue,   *)
(* event i carrying buf[i]                                                *)
line_queue_init == [i \in 1..SHELL_MAX_CMD_QUEUED |-> i - 1]

(* shell_register with the capacity test off by one *)
shell_register_off_by_one(module_name, commands, reg) ==
    IF reg.num > SHELL_MAX_MODULES
    THEN [ret |-> -1, modules |-> reg.modules, num |-> reg.num]
    ELSE [ret |-> 0,
          modules |-> [i \in DOMAIN reg.modules |->
                          IF i = reg.num THEN Module(module_name, commands)
                          ELSE reg.modules[i]],
          num |-> reg.num + 1]

(* shell_register storing the module in the first slot *)
shell_register_first_slot(module_name, commands, reg) ==
    IF reg.num >= SHELL_MAX_MODULES
    THEN [ret |-> -1, modules |-> reg.modules, num |-> reg.num]
    ELSE [ret |-> 0,
          modules |-> [reg.modules EXCEPT ![0] = Module(module_name, commands)],
          num |-> reg.num + 1]

(* shell_register, shell.c:438-450, on the registry reg = [modules, num] *)
shell_register(module_name, commands, reg) ==
    IF reg.num >= SHELL_MAX_MODULES
    THEN [ret |-> -1, modules |-> reg.modules, num |-> reg.num]
    ELSE [ret |-> 0,
          modules |-> [reg.modules EXCEPT ![reg.num] = Module(module_name, commands)],
          num |-> reg.num + 1]

Registry == [modules |-> shell_modules, num |-> num_of_shell_entities]
EmptyRegistry == [modules |-> [i \in 0..(SHELL_MAX_MODULES - 1) |-> NoModule], num |-> 0]

(* the registry after the modules of a sequence have been registered *)
RECURSIVE register_all(_, _)
register_all(ms, reg) ==
    IF ms = <<>> THEN reg
    ELSE LET r == shell_register(Head(ms).module_name, Head(ms).commands, reg)
         IN register_all(Tail(ms), [modules |-> r.modules, num |-> r.num])

(* ---------------------------------------------------------------------- *)
(* The inputs: module names, command tables, lines                        *)
(* ---------------------------------------------------------------------- *)
N_net == <<"n", "e", "t">>
N_zz == <<"z", "z">>
N_s19 == Rep("y", MODULE_NAME_MAX_LEN - 1)
N_s20 == Rep("x", MODULE_NAME_MAX_LEN)
N_s21 == Rep("x", MODULE_NAME_MAX_LEN + 1)
C_up == <<"u", "p">>
C_down == <<"d", "o", "w", "n">>
C_stat == <<"s", "t", "a", "t">>
C_ping == <<"p", "i", "n", "g">>
C_go == <<"g", "o">>
T_sum == <<"S">>
T_use == <<"U">>

NetCommands ==
    <<Cmd(C_up, "net_up", Help(T_sum, T_use)),
      Cmd(C_down, "net_down", Help(T_sum, NULLP)),
      Cmd(C_stat, "net_stat", Help(NULLP, NULLP)),
      Cmd(C_ping, "net_ping", NoHelp),
      Cmd(STR_help, "net_help", NoHelp)>>
ModNet == Module(N_net, NetCommands)
ModNet2 == Module(N_net, <<Cmd(C_go, "net2_go", NoHelp)>>)
ModS19 == Module(N_s19, <<Cmd(C_go, "s19_go", NoHelp)>>)
ModS20 == Module(N_s20, <<Cmd(C_go, "s20_go", NoHelp), Cmd(STR_select, "s20_select", NoHelp)>>)
ModS21 == Module(N_s21, <<Cmd(C_go, "s21_go", NoHelp)>>)
ModHelp == Module(STR_help, <<Cmd(C_go, "help_go", NoHelp)>>)
ModuleDefs == {ModNet, ModNet2, ModS19, ModS20, ModS21}
Names == {N_net, N_zz, N_s19, N_s20, N_s21}

(* the modules the packages register during sysinit *)
BootModules == <<ModNet, ModS19, ModS20>>
(* three boots for the commands: the second with a name registered twice *)
(* and a name longer than MODULE_NAME_MAX_LEN, the third with a module   *)
(* named like a built-in                                                 *)
BootConfigs == {BootModules, <<ModNet, ModNet2, ModS21>>, <<ModHelp, ModS20>>}

(* a line: the tokens with one space between them *)
RECURSIVE Line(_)
Line(tokens) ==
    IF tokens = <<>> THEN <<>>
    ELSE IF Len(tokens) = 1 THEN Head(tokens)
    ELSE Head(tokens) \o <<SP>> \o Line(Tail(tokens))

(* token i of a generated line: a module, one of its commands, arguments *)
Tok(i) == IF i = 1 THEN N_net ELSE IF i = 2 THEN C_up ELSE Rep("a", i - 2)
(* tokens i..n with sep spaces between them *)
RECURSIVE Join(_, _, _)
Join(i, n, sep) ==
    IF i > n THEN <<>>
    ELSE IF i = n THEN Tok(i)
    ELSE Tok(i) \o Rep(SP, sep) \o Join(i + 1, n, sep)
Spaced(n, lead, sep, trail) == Rep(SP, lead) \o Join(1, n, sep) \o Rep(SP, trail)
(* up to one token more than the capacity, spaced singly and with         *)
(* leading, doubled and trailing spaces; two tokens in every spacing      *)
TokLines ==
    {Spaced(n, 0, 1, 0) : n \in 0..(SHELL_CMD_ARGC_MAX + 1)}
    \cup {Spaced(n, 2, 2, 1) : n \in 0..(SHELL_CMD_ARGC_MAX + 1)}
    \cup {Spaced(2, lead, sep, trail) : lead \in {0, 2}, sep \in {1, 2}, trail \in {0, 1}}

L_empty == <<>>
L_spaces == <<SP, SP>>
L_toomany == Line(Rep(<<"a">>, SHELL_CMD_ARGC_MAX + 1))
L_net == N_net
L_net_up == Line(<<N_net, C_up>>)
L_net_up_sp == <<SP>> \o N_net \o <<SP, SP>> \o C_up \o <<SP>>
L_net_zz == Line(<<N_net, N_zz>>)
L_zz_up == Line(<<N_zz, C_up>>)
L_up == C_up
L_down == C_down
L_stat == C_stat
L_ping == C_ping
L_net_down == Line(<<N_net, C_down>>)
L_net_stat == Line(<<N_net, C_stat>>)
L_net_ping == Line(<<N_net, C_ping>>)
L_select == STR_select
L_select_net == Line(<<STR_select, N_net>>)
L_select_s19 == Line(<<STR_select, N_s19>>)
L_select_s20 == Line(<<STR_select, N_s20>>)
L_select_s21 == Line(<<STR_select, N_s21>>)
L_select_zz == Line(<<STR_select, N_zz>>)
L_help == STR_help
L_help_net == Line(<<STR_help, N_net>>)

LoopLines == {L_empty, L_toomany, L_net, L_zz_up, L_net_zz, L_net_up}
SelLines == {L_select, L_select_s20, L_select_s21, L_select_zz}
PromptLines == {L_select, L_empty}
ShortLines == {L_net_up, L_up, L_select_net, L_select}
HelpLines == {L_net_up, L_net_down, L_net_stat, L_net_ping, L_up, L_down, L_stat,
              L_ping, L_select_net, L_select}
CmdLines == {L_empty, L_spaces, L_toomany, L_net_up, L_net_up_sp, L_up, L_net_zz,
             L_select_net, L_select, L_help_net}
Lines == LoopLines \cup SelLines \cup PromptLines \cup CmdLines \cup ShortLines
         \cup HelpLines \cup TokLines
         \cup {L_help, L_select_net, L_select_s19}

(* what an application callback may return *)
CbResults == {-1, 0, 1}

(* ---------------------------------------------------------------------- *)
(* Initial states                                                          *)
(* ---------------------------------------------------------------------- *)
(* the statics as the loader and shell_init (shell.c:452-466) leave them, *)
(* with the registry reg                                                  *)
InitWith(reg) ==
    /\ shell_modules = reg.modules
    /\ num_of_shell_entities = reg.num
    /\ prompt = SHELL_PROMPT
    /\ default_module_prompt = Rep(NUL, PROMPT_MAX_LEN)
    /\ default_module = -1
    /\ app_cmd_handler = NOFUNC
    /\ app_prompt_handler = NOFUNC
    /\ buf = [e \in Events |-> <<>>]
    /\ avail_queue = line_queue_init
    /\ lines_queue = <<>>
    /\ cur_ev = NOEV
    /\ overrun = FALSE
    /\ console = <<>>
    /\ ret = [op |-> "shell_init", val |-> 0, arg |-> <<>>]
    /\ nproc = [e \in Events |-> 0]

Init == InitWith(EmptyRegistry)
InitBooted == InitWith(register_all(BootModules, EmptyRegistry))
InitCmd == \E ms \in BootConfigs : InitWith(register_all(ms, EmptyRegistry))

(* ---------------------------------------------------------------------- *)
(* Actions                                                                 *)
(* ---------------------------------------------------------------------- *)
queue_vars == <<buf, avail_queue, lines_queue, cur_ev, nproc>>
registry_vars == <<shell_modules, num_of_shell_entities>>
default_vars == <<default_module, default_module_prompt, overrun>>
handler_vars == <<app_cmd_handler, app_prompt_handler>>

(* shell_register(module_name, commands), shell.c:438-450, r being what  *)
(* it did to the registry                                                 *)
ShellRegisterSet(m, r) ==
    /\ shell_modules' = r.modules
    /\ num_of_shell_entities' = r.num
    /\ ret' = [op |-> "shell_register", val |-> r.ret, arg |-> m.module_name]
    /\ console' = <<>>
    /\ UNCHANGED <<prompt, default_vars, handler_vars, queue_vars>>

ShellRegister(m) ==
    \E r \in {shell_register(m.module_name, m.commands, Registry)} : ShellRegisterSet(m, r)

(* shell_register_app_cmd_handler(handler), shell.c:403-407 *)
ShellRegisterAppCmdHandler(handler) ==
    /\ app_cmd_handler' = handler
    /\ ret' = [op |-> "shell_register_app_cmd_handler", val |-> 0, arg |-> <<>>]
    /\ console' = <<>>
    /\ UNCHANGED <<prompt, registry_vars, default_vars, app_prompt_handler, queue_vars>>

(* shell_register_prompt_handler(handler), shell.c:409-413 *)
ShellRegisterPromptHandler(handler) ==
    /\ app_prompt_handler' = handler
    /\ ret' = [op |-> "shell_register_prompt_handler", val |-> 0, arg |-> <<>>]
    /\ console' = <<>>
    /\ UNCHANGED <<prompt, registry_vars, default_vars, app_cmd_handler, queue_vars>>

(* shell_register_default_module(name), shell.c:415-424, r being what    *)
(* set_default_module did                                                 *)
ShellRegisterDefaultModuleSet(name, r) ==
    /\ default_module' = r.g.default_module
    /\ default_module_prompt' = r.g.default_module_prompt
    /\ overrun' = r.g.overrun
    /\ console' = r.out \o (IF r.ret # -1
                            THEN <<Msg("Blank"),
                                   MsgS("module_prompt", array_str(r.g.default_module_prompt))>>
                            ELSE <<>>)
    /\ ret' = [op |-> "shell_register_default_module", val |-> r.ret, arg |-> name]
    /\ UNCHANGED <<prompt, registry_vars, handler_vars, queue_vars>>

ShellRegisterDefaultModule(name) ==
    \E r \in {set_default_module(name, G)} : ShellRegisterDefaultModuleSet(name, r)

(* The console: it takes a free event from avail_queue, stores a          *)
(* completed line in the console_input the event carries and puts the     *)
(* event on the queue of lines                                            *)
ConsoleFill(line) ==
    /\ avail_queue # <<>>
    /\ LET ev == Head(avail_queue) IN
       /\ avail_queue' = Tail(avail_queue)
       /\ buf' = [buf EXCEPT ![ev] = line]
       /\ lines_queue' = Append(lines_queue, ev)
       /\ nproc' = [nproc EXCEPT ![ev] = 0]
    /\ UNCHANGED <<prompt, registry_vars, default_vars, handler_vars, cur_ev,
                   console, ret>>

(* the user types the next line once the last one has been answered *)
Idle == lines_queue = <<>> /\ cur_ev = NOEV

(* The event loop of the shell task: it takes the next event off the      *)
(* queue of lines to run its ev_cb, which is shell (shell.c:432)          *)
EventqGet ==
    /\ cur_ev = NOEV
    /\ lines_queue # <<>>
    /\ cur_ev' = Head(lines_queue)
    /\ lines_queue' = Tail(lines_queue)
    /\ UNCHANGED <<prompt, registry_vars, default_vars, handler_vars, buf,
                   avail_queue, nproc, console, ret>>

(* shell() with the os_eventq_put of line 400 left out *)
ShellDone_no_put(p) ==
    /\ default_module' = p.g.default_module
    /\ default_module_prompt' = p.g.default_module_prompt
    /\ overrun' = p.g.overrun
    /\ console' = p.out
    /\ buf' = [buf EXCEPT ![cur_ev] = p.line]
    /\ ret' = [op |-> "shell", val |-> 0, arg |-> buf[cur_ev]]
    /\ avail_queue' = avail_queue
    /\ nproc' = [nproc EXCEPT ![cur_ev] = @ + 1]
    /\ cur_ev' = NOEV
    /\ UNCHANGED <<prompt, registry_vars, handler_vars, lines_queue>>

(* shell() putting the event back on the queue of lines *)
ShellDone_requeue(p) ==
    /\ default_module' = p.g.default_module
    /\ default_module_prompt' = p.g.default_module_prompt
    /\ overrun' = p.g.overrun
    /\ console' = p.out
    /\ buf' = [buf EXCEPT ![cur_ev] = p.line]
    /\ ret' = [op |-> "shell", val |-> 0, arg |-> buf[cur_ev]]
    /\ lines_queue' = Append(lines_queue, cur_ev)
    /\ nproc' = [nproc EXCEPT ![cur_ev] = @ + 1]
    /\ cur_ev' = NOEV
    /\ UNCHANGED <<prompt, registry_vars, handler_vars, avail_queue>>

(* shell() returning early, the event kept, when the callback failed *)
ShellDone_abort(p) ==
    /\ default_module' = p.g.default_module
    /\ default_module_prompt' = p.g.default_module_prompt
    /\ overrun' = p.g.overrun
    /\ console' = p.out
    /\ buf' = [buf EXCEPT ![cur_ev] = p.line]
    /\ ret' = [op |-> "shell", val |-> 0, arg |-> buf[cur_ev]]
    /\ avail_queue' = IF \E i \in 1..Len(p.out) : p.out[i].k = "CmdName"
                      THEN avail_queue ELSE Append(avail_queue, cur_ev)
    /\ nproc' = [nproc EXCEPT ![cur_ev] = @ + 1]
    /\ cur_ev' = NOEV
    /\ UNCHANGED <<prompt, registry_vars, handler_vars, lines_queue>>

(* shell(ev), shell.c:383-401, for the event taken: ev and ev->ev_arg are *)
(* not null (shell.c:433), so the line is processed and the event put     *)
(* back on avail_queue; p is what shell_process_command did               *)
ShellDone(p) ==
    /\ default_module' = p.g.default_module
    /\ default_module_prompt' = p.g.default_module_prompt
    /\ overrun' = p.g.overrun
    /\ console' = p.out
    /\ buf' = [buf EXCEPT ![cur_ev] = p.line]
    /\ ret' = [op |-> "shell", val |-> 0, arg |-> buf[cur_ev]]
    /\ avail_queue' = Append(avail_queue, cur_ev)
    /\ nproc' = [nproc EXCEPT ![cur_ev] = @ + 1]
    /\ cur_ev' = NOEV
    /\ UNCHANGED <<prompt, registry_vars, handler_vars, lines_queue>>

Shell ==
    /\ cur_ev # NOEV
    /\ \E res \in CbResults :
         \E p \in {shell_process_command(buf[cur_ev], res, G)} : ShellDone(p)

(* shell(NULL), shell.c:388-391: the prompt is printed again *)
ShellNoEvent ==
    /\ console' = print_prompt(G)
    /\ ret' = [op |-> "shell_null", val |-> 0, arg |-> <<>>]
    /\ UNCHANGED <<prompt, registry_vars, default_vars, handler_vars, queue_vars>>

(* ---------------------------------------------------------------------- *)
(* Specifications                                                          *)
(* ---------------------------------------------------------------------- *)
Register == \E m \in ModuleDefs : ShellRegister(m)
RegisterAppCmdHandler == \E h \in {NOFUNC, "app_handler"} : ShellRegisterAppCmdHandler(h)
RegisterPromptHandler ==
    \E h \in PromptHandlers \cup {NOFUNC} : ShellRegisterPromptHandler(h)
RegisterDefaultModule == \E name \in Names : ShellRegisterDefaultModule(name)
Fill == \E line \in Lines : ConsoleFill(line)
LoopFill == \E line \in LoopLines : ConsoleFill(line)
SelFill == \E line \in SelLines : Idle /\ ConsoleFill(line)
CmdFill == \E line \in CmdLines : Idle /\ ConsoleFill(line)
ShortFill == \E line \in ShortLines : Idle /\ ConsoleFill(line)
HelpFill == \E line \in HelpLines : Idle /\ ConsoleFill(line)
TokFill == \E line \in TokLines : Idle /\ ConsoleFill(line)
PromptFill == \E line \in PromptLines : Idle /\ ConsoleFill(line)

(* the whole shell *)
Next ==
    \/ Register
    \/ RegisterAppCmdHandler
    \/ RegisterPromptHandler
    \/ RegisterDefaultModule
    \/ Fill
    \/ EventqGet
    \/ Shell
    \/ ShellNoEvent
Spec == Init /\ [][Next]_vars

(* registration alone *)
NextReg == Register
SpecReg == Init /\ [][NextReg]_vars

(* the line-processing loop, the console filling events at any time *)
NextLoop == LoopFill \/ EventqGet \/ Shell \/ ShellNoEvent
SpecLoop == InitBooted /\ [][NextLoop]_vars
(* the shell task runs whenever an event is waiting, and callbacks return *)
FairLoop == SpecLoop /\ WF_vars(EventqGet) /\ WF_vars(Shell)

(* selecting the default module, by command and by the API *)
NextSel == SelFill \/ EventqGet \/ Shell \/ RegisterDefaultModule
SpecSel == InitBooted /\ [][NextSel]_vars

(* the prompt, with the application's prompt callback *)
NextPrompt ==
    PromptFill \/ EventqGet \/ Shell \/ RegisterDefaultModule \/ RegisterPromptHandler
SpecPrompt == InitBooted /\ [][NextPrompt]_vars

(* commands typed one at a time *)
NextCmd == CmdFill \/ EventqGet \/ Shell \/ RegisterAppCmdHandler
SpecCmd == InitCmd /\ [][NextCmd]_vars

(* the two forms of a command, with and without the module selected *)
NextShort == ShortFill \/ EventqGet \/ Shell \/ RegisterAppCmdHandler
SpecShort == InitCmd /\ [][NextShort]_vars

(* lines of any number of tokens and any spacing *)
NextTok == TokFill \/ EventqGet \/ Shell
SpecTok == InitBooted /\ [][NextTok]_vars

(* registering modules and looking them up by name *)
NextLookup == Register \/ RegisterDefaultModule
SpecLookup == Init /\ [][NextLookup]_vars

(* the commands of one module, typed with and without the module selected *)
NextHelp == HelpFill \/ EventqGet \/ Shell
SpecHelp == InitBooted /\ [][NextHelp]_vars

(* ---------------------------------------------------------------------- *)
(* The work items                                                          *)
(* ---------------------------------------------------------------------- *)
Count(q, e) == Cardinality({i \in 1..Len(q) : q[i] = e})
InQueue(q, e) == \E i \in 1..Len(q) : q[i] = e
Processing(e) == IF cur_ev = e THEN 1 ELSE 0
Outstanding == Len(lines_queue) + (IF cur_ev = NOEV THEN 0 ELSE 1)

(* where a work item is *)
Loc(e) ==
    IF InQueue(avail_queue, e) THEN "free"
    ELSE IF InQueue(lines_queue, e) THEN "pending"
    ELSE IF cur_ev = e THEN "processing"
    ELSE "lost"

(* C1: every work item is in exactly one of avail_queue, the queue of     *)
(* lines and processing, so the three together always hold                *)
(* SHELL_MAX_CMD_QUEUED items, and with all of them outstanding           *)
(* avail_queue is empty: the console gets no further item                 *)
C1_ItemOwnedOnce ==
    /\ \A e \in Events :
          Count(avail_queue, e) + Count(lines_queue, e) + Processing(e) = 1
    /\ Len(avail_queue) + Outstanding = SHELL_MAX_CMD_QUEUED
    /\ cur_ev \in Events \cup {NOEV}
    /\ Outstanding = SHELL_MAX_CMD_QUEUED => avail_queue = <<>> /\ ~ENABLED LoopFill

C1_Witness ==
    /\ cur_ev # NOEV
    /\ Len(lines_queue) = SHELL_MAX_CMD_QUEUED - 1
    /\ avail_queue = <<>>
    /\ ret.op = "shell"

(* C2: every item starts free and moves only free -> pending ->           *)
(* processing -> free; the step that returns it to avail_queue is the one *)
(* call of shell_process_command on the line it was filled with           *)
C2_Move(e) ==
    \/ Loc(e)' = Loc(e) /\ nproc'[e] = nproc[e]
    \/ Loc(e) = "free" /\ Loc(e)' = "pending" /\ nproc'[e] = 0
    \/ Loc(e) = "pending" /\ Loc(e)' = "processing" /\ nproc'[e] = 0 /\ nproc[e] = 0
    \/ /\ Loc(e) = "processing" /\ Loc(e)' = "free"
       /\ nproc[e] = 0 /\ nproc'[e] = 1
       /\ ret'.op = "shell" /\ ret'.arg = buf[e]

C2_Lifecycle ==
    /\ \A e \in Events : Loc(e) = "free"
    /\ [][\A e \in Events : C2_Move(e)]_vars

C2_Witness ==
    \E e \in Events :
        /\ nproc[e] = 1 /\ Loc(e) = "free"
        /\ \E f \in Events : Loc(f) = "processing"

(* C3: under a fair shell task every item put on the queue of lines gets  *)
(* back to avail_queue, whatever its line does                            *)
C3_Returned ==
    \A e \in Events : InQueue(lines_queue, e) ~> InQueue(avail_queue, e)

HasOut(k) == \E i \in 1..Len(console) : console[i].k = k

C3_Witness ==
    /\ ret.op = "shell"
    /\ ret.arg = L_net_up
    /\ HasOut("call") /\ HasOut("CmdName")
    /\ Len(avail_queue) = SHELL_MAX_CMD_QUEUED

(* ---------------------------------------------------------------------- *)
(* The registry                                                            *)
(* ---------------------------------------------------------------------- *)
(* C4: the module count never exceeds SHELL_MAX_MODULES, and a            *)
(* shell_register call on a full registry returns -1 and changes neither  *)
(* the count nor any entry                                                *)
C4_RegistryBounded ==
    /\ [](num_of_shell_entities <= SHELL_MAX_MODULES)
    /\ [][(ret'.op = "shell_register" /\ num_of_shell_entities >= SHELL_MAX_MODULES)
            => /\ ret'.val = -1
               /\ num_of_shell_entities' = num_of_shell_entities
               /\ shell_modules' = shell_modules]_vars

C4_Witness ==
    /\ ret.op = "shell_register" /\ ret.val = -1
    /\ num_of_shell_entities = SHELL_MAX_MODULES
    /\ \A i \in 0..(SHELL_MAX_MODULES - 1) : shell_modules[i] # NoModule

Last(q) == q[Len(q)]
SelectFailed == HasOut("ModuleNameTooLong") \/ HasOut("IllegalModuleDefault")
(* the name of the last select, by the API or by a select command *)
SelectedName ==
    IF ret.op = "shell_register_default_module" THEN ret.arg
    ELSE SubSeq(ret.arg, Len(STR_select) + 2, Len(ret.arg))
SelectDone ==
    \/ ret.op = "shell_register_default_module"
    \/ /\ ret.op = "shell"
       /\ Len(ret.arg) > Len(STR_select) + 1
       /\ SubSeq(ret.arg, 1, Len(STR_select) + 1) = STR_select \o <<SP>>
SelectSucceeded ==
    /\ SelectDone
    /\ IF ret.op = "shell" THEN ~SelectFailed ELSE ret.val = 0

(* C6 as claimed: after a select that succeeded the cached prompt is the  *)
(* name followed by "> "                                                  *)
C6_PromptIsName ==
    SelectSucceeded => array_str(default_module_prompt) = SelectedName \o STR_suffix

(* C7: a select that fails, the name being too long or matching no        *)
(* module, leaves default_module and default_module_prompt as they were   *)
C7_FailedSelectKeeps ==
    [][(SelectDone /\ ~SelectSucceeded)'
          => /\ default_module' = default_module
             /\ default_module_prompt' = default_module_prompt]_vars

C7_Witness ==
    /\ SelectDone /\ ~SelectSucceeded
    /\ ret.op = "shell"
    /\ default_module # -1

(* the prompt the last processed line ended with *)
PrintedPrompt == Last(console).t

(* C8 as claimed: the callback's string is the prompt only when it is not *)
(* empty                                                                  *)
C8_NonEmptyWins ==
    ret.op = "shell"
        => PrintedPrompt =
             IF app_prompt_handler # NOFUNC
                /\ prompt_handler_result(app_prompt_handler) # NULLP
                /\ prompt_handler_result(app_prompt_handler) # <<>>
             THEN prompt_handler_result(app_prompt_handler)
             ELSE IF default_module # -1 THEN array_str(default_module_prompt)
             ELSE SHELL_PROMPT

(* C8 amended: the callback's string is the prompt whenever a callback is *)
(* registered and returns a non-null pointer, an empty string included;   *)
(* otherwise the cached module prompt if a module is selected; otherwise  *)
(* "shell> "                                                              *)
C8_NonNullWins ==
    ret.op = "shell"
        => /\ Last(console).k = "prompt"
           /\ PrintedPrompt =
                IF app_prompt_handler # NOFUNC
                   /\ prompt_handler_result(app_prompt_handler) # NULLP
                THEN prompt_handler_result(app_prompt_handler)
                ELSE IF default_module # -1 THEN array_str(default_module_prompt)
                ELSE SHELL_PROMPT

C8_Witness ==
    /\ ret.op = "shell"
    /\ app_prompt_handler = "prompt_empty"
    /\ default_module # -1
    /\ PrintedPrompt = <<>>

(* ---------------------------------------------------------------------- *)
(* Commands                                                                *)
(* ---------------------------------------------------------------------- *)
CountOut(k) == Cardinality({i \in 1..Len(console) : console[i].k = k})

(* C9: whatever a line does, the prompt is printed once, last, and it is  *)
(* the prompt of the statics as the command left them                     *)
C9_PromptOnceLast ==
    ret.op = "shell"
        => /\ console # <<>>
           /\ Last(console) = MsgS("prompt", get_prompt(G))
           /\ CountOut("prompt") = 1

C9_Witness ==
    /\ ret.op = "shell"
    /\ ret.arg = L_select_net
    /\ default_module = 0
    /\ Last(console) = MsgS("prompt", N_net \o STR_suffix)

(* the callback invocations among what was printed *)
Calls(out) == SelectSeq(out, LAMBDA o : o.k = "call")
(* the invocations a line makes with the statics g *)
CallsOf(tokens, g) == Calls(shell_process_command(Line(tokens), 0, g).out)
(* argument lists: up to SHELL_CMD_ARGC_MAX - 1 arguments *)
ArgLists == {Rep(<<"a">>, n) : n \in 0..(SHELL_CMD_ARGC_MAX - 1)}

(* "m c args" with no default module and "c args" with m selected make    *)
(* the same invocations, for the command c of module i and args           *)
SameInvocation(i, c, args) ==
    \A sel \in {set_default_module(shell_modules[i].module_name,
                                   [G EXCEPT !.default_module = -1])} :
        sel.ret = 0
          => CallsOf(<<shell_modules[i].module_name, c>> \o args,
                     [G EXCEPT !.default_module = -1])
             = CallsOf(<<c>> \o args, sel.g)

(* C10 as claimed: for every registered module, every command of its      *)
(* table and every argument list                                          *)
C10_ShorthandAlways ==
    \A i \in 0..(num_of_shell_entities - 1) :
        \A k \in 1..Len(shell_modules[i].commands) :
            \A args \in ArgLists :
                SameInvocation(i, shell_modules[i].commands[k].sc_cmd, args)

BuiltinName(name) == name = STR_help \/ name = STR_select

(* C10 amended: the two forms make the same invocation when neither the   *)
(* module nor the command is named help or select and the prefixed line   *)
(* has at most SHELL_CMD_ARGC_MAX tokens                                  *)
C10_Shorthand ==
    \A i \in 0..(num_of_shell_entities - 1) :
        \A k \in 1..Len(shell_modules[i].commands) :
            \A args \in ArgLists :
                (/\ ~BuiltinName(shell_modules[i].module_name)
                 /\ ~BuiltinName(shell_modules[i].commands[k].sc_cmd)
                 /\ Len(args) + 2 <= SHELL_CMD_ARGC_MAX)
                  => SameInvocation(i, shell_modules[i].commands[k].sc_cmd, args)

C10_Witness ==
    /\ ret.op = "shell"
    /\ ret.arg = L_up
    /\ default_module = 0
    /\ HasOut("call")
    /\ Calls(console) = <<Out("call", <<"net_up">>, 1, <<C_up>>)>>
    /\ CallsOf(<<N_net, C_up>>, [G EXCEPT !.default_module = -1])
         = <<Out("call", <<"net_up">>, 1, <<C_up>>)>>

(* ---------------------------------------------------------------------- *)
(* The argument offset                                                     *)
(* ---------------------------------------------------------------------- *)
(* a step of shell(): the callback of the event taken returns *)
ShellStep == cur_ev # NOEV /\ cur_ev' = NOEV /\ ret'.op = "shell"

Builtin(f) == f = "select_module" \/ f = "show_help"

(* the callback shell_process_command invokes for the tokens t, NOFUNC if *)
(* it invokes none                                                        *)
Resolved(t, dm) ==
    IF t.argc = 0 THEN NOFUNC
    ELSE Bind(get_cb(t.argc, t.argv, dm),
              LAMBDA cb : IF cb.func # NOFUNC THEN cb.func ELSE app_cmd_handler)

(* what a step that processed the tokens t shows of the invocation of f   *)
(* with n arguments, the list v: for an application callback the          *)
(* invocation itself, for select the selection it makes with them, for    *)
(* help what it prints for them                                           *)
InvokedWith(t, f, n, v) ==
    IF f = "select_module"
    THEN default_module' = select_module(n, v, G).g.default_module
    ELSE IF f = "show_help"
    THEN console' = t.out \o show_help(n, v, default_module)
                    \o <<MsgS("prompt", get_prompt(G))>>
    ELSE Calls(console') = <<Out("call", <<f>>, n, SubSeq(v, 1, n))>>

ArgumentOffset(t, f) ==
    f # NOFUNC
      => IF default_module = -1 /\ ~Builtin(f)
         THEN InvokedWith(t, f, t.argc - 1, Tail(t.argv))
         ELSE InvokedWith(t, f, t.argc, t.argv)

(* C11: with no default module and a callback that is neither select nor  *)
(* help the callback gets the tokens without the first one, the count one *)
(* less; with a default module, or for select and help, it gets all the   *)
(* tokens                                                                 *)
C11_ArgumentOffset ==
    [][ShellStep
         => \A t \in {line2argv(buf[cur_ev], SHELL_CMD_ARGC_MAX + 1)} :
              \A f \in {Resolved(t, default_module)} : ArgumentOffset(t, f)]_vars

C11_Witness ==
    /\ ret.op = "shell"
    /\ ret.arg = L_net_up_sp
    /\ default_module = -1
    /\ Calls(console) = <<Out("call", <<"net_up">>, 1, <<C_up>>)>>

(* the line typed is the name of the registered module i and the name of  *)
(* the command k of its table                                             *)
ModuleCommandLine(i, k) ==
    /\ ret.op = "shell"
    /\ ret.arg = Line(<<shell_modules[i].module_name,
                        shell_modules[i].commands[k].sc_cmd>>)

(* C12 as claimed: with no default module the line "module command"       *)
(* invokes the command's callback with an argument count of 0 and, the    *)
(* callback not failing, prints nothing but the prompt                    *)
C12_CountZeroNothingPrinted ==
    \A i \in 0..(num_of_shell_entities - 1) :
        \A k \in 1..Len(shell_modules[i].commands) :
            (ModuleCommandLine(i, k) /\ default_module = -1 /\ HasOut("call"))
              => /\ Calls(console)[1].n = 0
                 /\ ~HasOut("CmdName")
                      => SelectSeq(console, LAMBDA o : o.k # "call" /\ o.k # "return")
                         = <<MsgS("prompt", get_prompt(G))>>

(* ---------------------------------------------------------------------- *)
(* The result of a callback                                                *)
(* ---------------------------------------------------------------------- *)
RegisteredCmds ==
    UNION {{shell_modules[i].commands[k] : k \in 1..Len(shell_modules[i].commands)} :
              i \in 0..(num_of_shell_entities - 1)}
(* where the callback returned in the console output of the last line *)
ReturnAt == CHOOSE i \in 1..Len(console) : console[i].k = "return"
AfterReturn == SubSeq(console, ReturnAt + 1, Len(console))
(* the help of a command as the claim words it *)
HelpOf(cmd) ==
    <<MsgS("CmdName", cmd.sc_cmd),
      IF cmd.help.present /\ cmd.help.usage # NULLP THEN MsgS("HelpText", cmd.help.usage)
      ELSE IF cmd.help.present /\ cmd.help.summary # NULLP
      THEN MsgS("HelpText", cmd.help.summary)
      ELSE Msg("Blank")>>
Generic(o) ==
    o.k \in {"UnrecognizedCommand", "UnrecognizedCommandS", "IllegalModule", "TypeHelp"}

(* C13: a registered command's callback returning a negative result gets  *)
(* that command's help printed (name, then usage, else summary, else a    *)
(* blank line), then the prompt, and no generic message; returning zero   *)
(* or more, the prompt alone follows                                      *)
C13_NegativeShowsHelp ==
    (ret.op = "shell" /\ HasOut("return"))
      => \A cmd \in {c \in RegisteredCmds : c.sc_cmd_func = console[ReturnAt].t[1]} :
            /\ \A i \in 1..Len(console) : ~Generic(console[i])
            /\ AfterReturn = (IF console[ReturnAt].n < 0 THEN HelpOf(cmd) ELSE <<>>)
                              \o <<MsgS("prompt", get_prompt(G))>>

C13_Witness ==
    /\ ret.op = "shell"
    /\ ret.arg = L_down
    /\ default_module = 0
    /\ HasOut("return") /\ console[ReturnAt].n < 0
    /\ AfterReturn = <<MsgS("CmdName", C_down), MsgS("HelpText", T_sum),
                       MsgS("prompt", N_net \o STR_suffix)>>

(* ---------------------------------------------------------------------- *)
(* The tokenizer                                                           *)
(* ---------------------------------------------------------------------- *)
(* the tokens of a line: its maximal runs of characters other than the    *)
(* space, in the order of their first characters                          *)
TokenStarts(s) == {i \in 1..Len(s) : s[i] # SP /\ (i = 1 \/ s[i - 1] = SP)}
TokenEnd(s, i) ==
    CHOOSE j \in i..Len(s) :
        /\ \A k \in i..j : s[k] # SP
        /\ (j = Len(s) \/ s[j + 1] = SP)
RECURSIVE TokensFrom(_, _)
TokensFrom(s, starts) ==
    IF starts = {} THEN <<>>
    ELSE LET i == CHOOSE x \in starts : \A y \in starts : x <= y
         IN <<SubSeq(s, i, TokenEnd(s, i))>> \o TokensFrom(s, starts \ {i})
Tokens(s) == TokensFrom(s, TokenStarts(s))
Tokenized(s) == line2argv(s, SHELL_CMD_ARGC_MAX + 1)

(* C14: a line of at most SHELL_CMD_ARGC_MAX tokens, however spaced,      *)
(* gives exactly its tokens in order, no empty argument among them, the   *)
(* count being 0 exactly when the line has no token; the callback the     *)
(* line reaches is handed them                                            *)
C14_TokensRecovered ==
    (ret.op = "shell" /\ Len(Tokens(ret.arg)) <= SHELL_CMD_ARGC_MAX)
      => \A r \in {Tokenized(ret.arg)} :
            /\ r.argc = Len(Tokens(ret.arg))
            /\ SubSeq(r.argv, 1, r.argc) = Tokens(ret.arg)
            /\ \A i \in 1..r.argc : r.argv[i] # <<>>
            /\ (r.argc = 0) <=> (\A i \in 1..Len(ret.arg) : ret.arg[i] = SP)
            /\ r.argc >= 2
                 => Calls(console)
                    = <<Out("call", <<"net_up">>, r.argc - 1, Tail(Tokens(ret.arg)))>>

C14_Witness ==
    /\ ret.op = "shell"
    /\ ret.arg = Spaced(SHELL_CMD_ARGC_MAX, 2, 2, 1)
    /\ Calls(console) # <<>>
    /\ Calls(console)[1].n = SHELL_CMD_ARGC_MAX - 1

TooMany(s) == Len(Tokens(s)) > SHELL_CMD_ARGC_MAX
Rejected == <<Out("TooManyParameters", <<>>, SHELL_CMD_ARGC_MAX, <<>>),
              MsgS("prompt", get_prompt(G))>>

(* C15: a line of more than SHELL_CMD_ARGC_MAX tokens gets "Too many      *)
(* parameters" and the prompt, a count of 0, no callback and no change of *)
(* the default module; a line of exactly SHELL_CMD_ARGC_MAX tokens is run *)
(* with all of them, also when the line before it was rejected            *)
C15_RejectedWhole ==
    /\ [](ret.op = "shell" /\ TooMany(ret.arg)
            => console = Rejected /\ Tokenized(ret.arg).argc = 0)
    /\ [][ShellStep /\ TooMany(buf[cur_ev])
            => UNCHANGED <<default_module, default_module_prompt>>]_vars
    /\ [][(ShellStep /\ Len(Tokens(buf[cur_ev])) = SHELL_CMD_ARGC_MAX)
            => Calls(console')
               = <<Out("call", <<"net_up">>, SHELL_CMD_ARGC_MAX - 1,
                       Tail(Tokens(buf[cur_ev])))>>]_vars

C15_Witness ==
    /\ ret.op = "shell"
    /\ ret.arg = Spaced(SHELL_CMD_ARGC_MAX, 0, 1, 0)
    /\ Calls(console) # <<>>
    /\ Calls(console)[1].v = Tail(Tokens(ret.arg))
    /\ \E e \in Events : buf[e] = Tokenized(Spaced(SHELL_CMD_ARGC_MAX + 1, 0, 1, 0)).line

(* C17 as claimed: whatever line2argv returns, the cell of the argument   *)
(* list one past the last argument holds NULL                             *)
C17_EndMarkerAlways ==
    ret.op = "shell"
      => \A r \in {Tokenized(ret.arg)} : r.argv[r.argc + 1] = NULLP

(* ---------------------------------------------------------------------- *)
(* The cached prompt                                                       *)
(* ---------------------------------------------------------------------- *)
(* C16 as claimed: the cached prompt changes in exactly the steps that    *)
(* change the selection                                                   *)
C16_RecomputedIffChanged ==
    [][(default_module' # default_module)
         <=> (default_module_prompt' # default_module_prompt)]_vars

(* C16 amended: the cached prompt is written by the selects that succeed, *)
(* which store the name at its start and the index of the module of that  *)
(* name, and by nothing else: select without argument clears the          *)
(* selection and leaves the cached prompt as it was, and a failed select  *)
(* leaves it too                                                          *)
C16_WrittenBySelect ==
    /\ [][default_module_prompt' # default_module_prompt => SelectSucceeded']_vars
    /\ [](SelectSucceeded
            => /\ SubSeq(default_module_prompt, 1, Len(SelectedName)) = SelectedName
               /\ default_module
                  = get_destination_module(SelectedName, MODULE_NAME_MAX_LEN))
    /\ [][(ShellStep /\ buf[cur_ev] = L_select)
            => /\ default_module' = -1
               /\ default_module_prompt' = default_module_prompt]_vars
    /\ [][(SelectDone /\ ~SelectSucceeded)'
            => default_module_prompt' = default_module_prompt]_vars

C16_Witness ==
    /\ ret.op = "shell"
    /\ ret.arg = L_select
    /\ default_module = -1
    /\ array_str(default_module_prompt) = N_s20 \o STR_suffix

(* C19 as claimed: every write to default_module_prompt stays inside its  *)
(* PROMPT_MAX_LEN cells and it always holds a terminated string of at     *)
(* most PROMPT_MAX_LEN - 1 characters                                     *)
C19_PromptInBounds ==
    /\ ~overrun
    /\ \E i \in 1..PROMPT_MAX_LEN : default_module_prompt[i] = NUL

(* ---------------------------------------------------------------------- *)
(* What a callback is handed                                               *)
(* ---------------------------------------------------------------------- *)
(* C20 as claimed: every callback invoked gets an argument count of at    *)
(* least 1 and a first argument that is not NULL                          *)
C20_AtLeastOneArgument ==
    \A i \in 1..Len(console) :
        console[i].k = "call" => console[i].n >= 1 /\ console[i].v # <<>>

(* ---------------------------------------------------------------------- *)
(* Module lookup                                                           *)
(* ---------------------------------------------------------------------- *)
CharAt(a, k) == IF k <= Len(a) THEN a[k] ELSE NUL
(* the registered modules whose name agrees with the candidate on the     *)
(* first MODULE_NAME_MAX_LEN characters                                   *)
Matching(name) ==
    {i \in 0..(num_of_shell_entities - 1) :
        \A k \in 1..MODULE_NAME_MAX_LEN :
            CharAt(name, k) = CharAt(shell_modules[i].module_name, k)}
LowestMatching(name) ==
    IF Matching(name) = {} THEN -1
    ELSE CHOOSE i \in Matching(name) : \A j \in Matching(name) : i <= j

(* C18: the lookup gives the lowest index whose name agrees with the      *)
(* candidate on the first MODULE_NAME_MAX_LEN characters, -1 when there   *)
(* is none, and a select by name selects that index                       *)
C18_LowestMatch ==
    /\ \A name \in Names :
          get_destination_module(name, MODULE_NAME_MAX_LEN) = LowestMatching(name)
    /\ (ret.op = "shell_register_default_module" /\ Len(ret.arg) <= MODULE_NAME_MAX_LEN)
         => IF LowestMatching(ret.arg) = -1 THEN ret.val = -1
            ELSE ret.val = 0 /\ default_module = LowestMatching(ret.arg)

C18_Witness ==
    /\ ret.op = "shell_register_default_module"
    /\ ret.arg = N_s20
    /\ num_of_shell_entities = SHELL_MAX_MODULES
    /\ default_module = 2
    /\ shell_modules[0].module_name = N_net
    /\ shell_modules[1].module_name = N_net
    /\ shell_modules[2].module_name = N_s21
    /\ get_destination_module(N_net, MODULE_NAME_MAX_LEN) = 0
    /\ get_destination_module(N_zz, MODULE_NAME_MAX_LEN) = -1
====
